---- MODULE Spec2Model ----
(***************************************************************************)
(* A model of helper_func.py: size_of_fmt, reduce_dtypes, merge_by_concat. *)
(*                                                                         *)
(* Numbers.  A 64-bit integer is four 16-bit limbs <<l3, l2, l1, l0>>,     *)
(* most significant first, l3 signed (two's complement), the value being   *)
(* l3*2^48 + l2*2^32 + l1*2^16 + l0.  A binary floating-point number is a  *)
(* record [k, s, m, e]: k is "fin", "inf" or "nan", and a finite number is *)
(* s * m * 2^e with m odd (or m = 0).  Only floats whose significand has   *)
(* at most 30 bits are drawn as inputs; every one of them is a float64.    *)
(***************************************************************************)
EXTENDS Integers, Sequences, FiniteSets, TLC

VARIABLES
    df,         \* reduce_dtypes: the table, mutated in place
    df_prev,    \* reduce_dtypes: the table as it was passed to the latest call
    calls,      \* reduce_dtypes: number of calls made on df
    df1,        \* merge_by_concat: the primary table
    df2,        \* merge_by_concat: the secondary table
    merged,     \* merge_by_concat: the returned table, or NoTable before the call
    num,        \* size_of_fmt: the local num, [neg, m, j] = (+/-) m * 1024^j
    num0,       \* size_of_fmt: the argument num as passed
    suffix,     \* size_of_fmt: the argument suffix
    unit,       \* size_of_fmt: position of the for loop in the unit list (1..8, 9 = past it)
    out         \* size_of_fmt: the returned string, or NoString before the return

vars == <<df, df_prev, calls, df1, df2, merged, num, num0, suffix, unit, out>>

(***************************************************************************)
(* Bounds of the model.                                                    *)
(***************************************************************************)
MaxRows == 2
MaxCalls == 2
MaxExp == 9

Max(a, b) == IF a >= b THEN a ELSE b

RECURSIVE BitLen(_)
BitLen(m) == IF m = 0 THEN 0 ELSE 1 + BitLen(m \div 2)

(***************************************************************************)
(* Integers: numpy's fixed-width signed integers.                          *)
(***************************************************************************)
\* The limbs of an integer small enough to be written as a TLA+ number.
I(n) ==
    <<IF n < 0 THEN -1 ELSE 0, IF n < 0 THEN 65535 ELSE 0,
      (n \div 65536) % 65536, n % 65536>>

IntLess(x, y) ==
    \E i \in 1..4 : x[i] < y[i] /\ \A j \in 1..(i - 1) : x[j] = y[j]

\* np.iinfo(np.int<bits>).min and .max
iinfo_min(bits) ==
    CASE bits = 8 -> I(-128)
      [] bits = 16 -> I(-32768)
      [] bits = 32 -> <<-1, 65535, 32768, 0>>
      [] bits = 64 -> <<-32768, 0, 0, 0>>

iinfo_max(bits) ==
    CASE bits = 8 -> I(127)
      [] bits = 16 -> I(32767)
      [] bits = 32 -> <<0, 0, 32767, 65535>>
      [] bits = 64 -> <<32767, 65535, 65535, 65535>>

\* Series.astype(np.int<bits>) on one integer: numpy keeps the low bits
\* (the cast wraps, it does not check the range).
astype_int(x, bits) ==
    CASE bits = 64 -> x
      [] bits = 32 ->
            IF x[3] >= 32768 THEN <<-1, 65535, x[3], x[4]>> ELSE <<0, 0, x[3], x[4]>>
      [] bits = 16 ->
            IF x[4] >= 32768 THEN <<-1, 65535, 65535, x[4]>> ELSE <<0, 0, 0, x[4]>>
      [] bits = 8 ->
            LET b == x[4] % 256
            IN  IF b >= 128 THEN <<-1, 65535, 65535, 65280 + b>> ELSE <<0, 0, 0, b>>

(***************************************************************************)
(* Floats: IEEE 754 binary16, binary32 and binary64.                       *)
(***************************************************************************)
NaN == [k |-> "nan", s |-> 1, m |-> 0, e |-> 0]
Inf(s) == [k |-> "inf", s |-> s, m |-> 0, e |-> 0]

RECURSIVE Norm(_, _, _)
Norm(s, m, e) ==
    IF m = 0 THEN [k |-> "fin", s |-> 1, m |-> 0, e |-> 0]
    ELSE IF m % 2 = 0 THEN Norm(s, m \div 2, e + 1)
    ELSE [k |-> "fin", s |-> s, m |-> m, e |-> e]

F(s, m, e) == Norm(s, m, e)

\* precision (bits of significand), least and greatest exponent of a normal number
FloatFormat(bits) ==
    CASE bits = 16 -> [p |-> 11, emin |-> -14, emax |-> 15]
      [] bits = 32 -> [p |-> 24, emin |-> -126, emax |-> 127]
      [] bits = 64 -> [p |-> 53, emin |-> -1022, emax |-> 1023]

\* np.finfo(np.float<bits>).max and .min, for the two formats the code asks about
finfo_max(bits) ==
    LET f == FloatFormat(bits) IN F(1, 2^(f.p) - 1, f.emax - f.p + 1)

finfo_min(bits) ==
    LET f == FloatFormat(bits) IN F(-1, 2^(f.p) - 1, f.emax - f.p + 1)

\* |x| < |y| for finite nonzero x, y
MagLess(x, y) ==
    LET lx == BitLen(x.m)
        ly == BitLen(y.m)
        l  == Max(lx, ly)
    IN  IF lx + x.e # ly + y.e THEN lx + x.e < ly + y.e
        ELSE x.m * 2^(l - lx) < y.m * 2^(l - ly)

Sign(x) == IF x.k = "fin" /\ x.m = 0 THEN 0 ELSE x.s

\* x < y as IEEE 754 compares: false when either is NaN
FloatLess(x, y) ==
    IF x.k = "nan" \/ y.k = "nan" THEN FALSE
    ELSE IF x.k = "inf" \/ y.k = "inf" THEN
        IF x.k = "inf" /\ y.k = "inf" THEN x.s < y.s
        ELSE IF x.k = "inf" THEN x.s = -1
        ELSE y.s = 1
    ELSE IF Sign(x) # Sign(y) THEN Sign(x) < Sign(y)
    ELSE IF Sign(x) = 0 THEN FALSE
    ELSE IF Sign(x) = 1 THEN MagLess(x, y)
    ELSE MagLess(y, x)

\* Series.astype(np.float<bits>) on one float: round to nearest, ties to even,
\* gradual underflow, overflow to infinity.
astype_float(x, bits) ==
    IF x.k # "fin" \/ x.m = 0 THEN x
    ELSE
        LET f   == FloatFormat(bits)
            l   == BitLen(x.m)
            qe  == Max(l - 1 + x.e, f.emin) - (f.p - 1)
            sh  == qe - x.e
            r   == IF sh <= 0 THEN x
                   ELSE IF sh > 30 THEN F(1, 0, 0)
                   ELSE LET q    == x.m \div 2^sh
                            rem  == x.m % 2^sh
                            half == 2^(sh - 1)
                            up   == rem > half \/ (rem = half /\ q % 2 = 1)
                        IN  F(x.s, IF up THEN q + 1 ELSE q, qe)
        IN  IF r.m # 0 /\ BitLen(r.m) + r.e - 1 > f.emax THEN Inf(x.s) ELSE r

(***************************************************************************)
(* Tables.  A table (a DataFrame) is [index, columns]: the row labels in   *)
(* row order and the sequence of columns; a column is [name, dtype, vals]  *)
(* whose vals are its values in row order.  A dtype is [kind, bits];       *)
(* str(dtype) is the kind followed by the bits, so str(dtype)[:3] = 'int'  *)
(* exactly for kind "int".                                                 *)
(***************************************************************************)
Dtype(kind, bits) == [kind |-> kind, bits |-> bits]

int8 == Dtype("int", 8)
int16 == Dtype("int", 16)
int32 == Dtype("int", 32)
int64 == Dtype("int", 64)
float16 == Dtype("float", 16)
float32 == Dtype("float", 32)
float64 == Dtype("float", 64)
object == Dtype("object", 0)

Column(name, dtype, vals) == [name |-> name, dtype |-> dtype, vals |-> vals]

Table(index, columns) == [index |-> index, columns |-> columns]

\* pd.RangeIndex(n): the labels 0 .. n-1
RangeIndex(n) == [i \in 1..n |-> i - 1]

Range(s) == {s[i] : i \in DOMAIN s}

(***************************************************************************)
(* reduce_dtypes                                                           *)
(***************************************************************************)
\* numerics with 'int8' listed as well
numerics_with_int8 == {int8, int16, int32, int64, float16, float32, float64}

numerics == {int16, int32, int64, float16, float32, float64}

\* df[col].min() and df[col].max() of an integer column: NaN when it has no rows
int_min(vals) ==
    IF vals = <<>> THEN [nan |-> TRUE, v |-> I(0)]
    ELSE [nan |-> FALSE,
          v |-> CHOOSE x \in Range(vals) : \A y \in Range(vals) : ~IntLess(y, x)]

int_max(vals) ==
    IF vals = <<>> THEN [nan |-> TRUE, v |-> I(0)]
    ELSE [nan |-> FALSE,
          v |-> CHOOSE x \in Range(vals) : \A y \in Range(vals) : ~IntLess(x, y)]

\* df[col].min() and df[col].max() of a float column: NaN values are skipped,
\* and the result is NaN when nothing is left
float_min(vals) ==
    LET s == {x \in Range(vals) : x.k # "nan"}
    IN  IF s = {} THEN NaN ELSE CHOOSE x \in s : \A y \in s : ~FloatLess(y, x)

float_max(vals) ==
    LET s == {x \in Range(vals) : x.k # "nan"}
    IN  IF s = {} THEN NaN ELSE CHOOSE x \in s : \A y \in s : ~FloatLess(x, y)

\* int_fits with >= and <= for > and <
int_fits_inclusive(c_min, c_max, bits) ==
    /\ ~c_min.nan /\ ~IntLess(c_min.v, iinfo_min(bits))
    /\ ~c_max.nan /\ ~IntLess(iinfo_max(bits), c_max.v)

\* c_min > np.iinfo(np.int<bits>).min and c_max < np.iinfo(np.int<bits>).max;
\* a comparison with NaN is false
int_fits(c_min, c_max, bits) ==
    /\ ~c_min.nan /\ IntLess(iinfo_min(bits), c_min.v)
    /\ ~c_max.nan /\ IntLess(c_max.v, iinfo_max(bits))

\* c_min > np.finfo(np.float<bits>).min and c_max < np.finfo(np.float<bits>).max
float_fits(c_min, c_max, bits) ==
    FloatLess(finfo_min(bits), c_min) /\ FloatLess(c_max, finfo_max(bits))

\* df[col] = df[col].astype(<dtype>)
astype(c, dtype) ==
    Column(c.name, dtype,
           [i \in DOMAIN c.vals |->
               IF dtype.kind = "int" THEN astype_int(c.vals[i], dtype.bits)
               ELSE astype_float(c.vals[i], dtype.bits)])

\* reduce_int with the int8 and int16 branches in the other order
reduce_int_int16_first(c) ==
    LET c_min == int_min(c.vals)
        c_max == int_max(c.vals)
    IN  IF int_fits(c_min, c_max, 16) THEN astype(c, int16)
        ELSE IF int_fits(c_min, c_max, 8) THEN astype(c, int8)
        ELSE IF int_fits(c_min, c_max, 32) THEN astype(c, int32)
        ELSE IF int_fits(c_min, c_max, 64) THEN astype(c, int64)
        ELSE c

reduce_int(c) ==
    LET c_min == int_min(c.vals)
        c_max == int_max(c.vals)
    IN  IF int_fits(c_min, c_max, 8) THEN astype(c, int8)
        ELSE IF int_fits(c_min, c_max, 16) THEN astype(c, int16)
        ELSE IF int_fits(c_min, c_max, 32) THEN astype(c, int32)
        ELSE IF int_fits(c_min, c_max, 64) THEN astype(c, int64)
        ELSE c

reduce_float(c) ==
    LET c_min == float_min(c.vals)
        c_max == float_max(c.vals)
    IN  IF float_fits(c_min, c_max, 16) THEN astype(c, float16)
        ELSE IF float_fits(c_min, c_max, 32) THEN astype(c, float32)
        ELSE astype(c, float64)

\* the body of the loop over df.columns
reduce_column(c) ==
    IF c.dtype \in numerics THEN
        IF c.dtype.kind = "int" THEN reduce_int(c) ELSE reduce_float(c)
    ELSE c

reduce_dtypes(t) ==
    Table(t.index, [i \in DOMAIN t.columns |-> reduce_column(t.columns[i])])

(***************************************************************************)
(* merge_by_concat                                                         *)
(***************************************************************************)
RECURSIVE SortedSeq(_)
SortedSeq(S) ==
    IF S = {} THEN <<>>
    ELSE LET x == CHOOSE y \in S : \A z \in S : y <= z
         IN  <<x>> \o SortedSeq(S \ {x})

NumRows(t) == Len(t.index)

ColumnNames(t) == [i \in DOMAIN t.columns |-> t.columns[i].name]

ColumnOf(t, name) == t.columns[CHOOSE i \in DOMAIN t.columns : t.columns[i].name = name]

\* the join key of row r of t: its values in the columns named by on
KeyOf(t, on, r) == [k \in DOMAIN on |-> ColumnOf(t, on[k]).vals[r]]

\* an int64 as a float64, for the integers whose upper limbs only extend the sign
to_float(x) ==
    LET n == IF x[1] < 0 THEN (x[3] - 65536) * 65536 + x[4] ELSE x[3] * 65536 + x[4]
    IN  IF n < 0 THEN F(-1, -n, 0) ELSE F(1, n, 0)

\* the values vals taken at the positions pos, position 0 standing for a row
\* that does not exist: such a cell is NaN, and an integer column that gets one
\* becomes float64
take(c, pos) ==
    IF \A k \in DOMAIN pos : pos[k] # 0 THEN
        Column(c.name, c.dtype, [k \in DOMAIN pos |-> c.vals[pos[k]]])
    ELSE IF c.dtype.kind = "int" THEN
        Column(c.name, float64,
               [k \in DOMAIN pos |-> IF pos[k] = 0 THEN NaN ELSE to_float(c.vals[pos[k]])])
    ELSE
        Column(c.name, c.dtype,
               [k \in DOMAIN pos |-> IF pos[k] = 0 THEN NaN ELSE c.vals[pos[k]]])

\* the row pairs of left.merge(right, on=on, how='left'): the left rows in order,
\* each with its matching right rows in the right table's order, or with none (r = 0)
RECURSIVE left_join_rows(_, _, _, _)
left_join_rows(left, right, on, from) ==
    IF from > NumRows(left) THEN <<>>
    ELSE
        LET hits == SortedSeq({j \in 1..NumRows(right) :
                                  KeyOf(right, on, j) = KeyOf(left, on, from)})
            rows == IF hits = <<>> THEN <<[l |-> from, r |-> 0]>>
                    ELSE [k \in DOMAIN hits |-> [l |-> from, r |-> hits[k]]]
        IN  rows \o left_join_rows(left, right, on, from + 1)

\* left[on].merge(right, on=on, how='left'): the key columns, then the other columns
\* of right, under a fresh RangeIndex
merge_left(left, right, on) ==
    LET rows  == left_join_rows(left, right, on, 1)
        keys  == [k \in DOMAIN on |->
                     take(ColumnOf(left, on[k]), [i \in DOMAIN rows |-> rows[i].l])]
        rest  == SelectSeq(right.columns, LAMBDA c : c.name \notin Range(on))
        added == [k \in DOMAIN rest |-> take(rest[k], [i \in DOMAIN rows |-> rows[i].r])]
    IN  Table(RangeIndex(Len(rows)), keys \o added)

\* the position of label in index, 0 when it is not there
Position(index, label) ==
    IF label \in Range(index) THEN CHOOSE i \in DOMAIN index : index[i] = label ELSE 0

\* t.reindex(index)
reindex(t, index) ==
    Table(index,
          [k \in DOMAIN t.columns |->
              take(t.columns[k], [i \in DOMAIN index |-> Position(t.index, index[i])])])

\* the row labels of pd.concat([x, y], axis=1): x's index when the two are equal,
\* else their union, which pandas returns either sorted or in order of appearance
union_index(ix, iy, sorted) ==
    IF ix = iy THEN ix
    ELSE IF sorted THEN SortedSeq(Range(ix) \cup Range(iy))
    ELSE ix \o SelectSeq(iy, LAMBDA l : l \notin Range(ix))

\* pd.concat([x, y], axis=1)
concat_axis1(x, y, sorted) ==
    LET index == union_index(x.index, y.index, sorted)
    IN  Table(index, reindex(x, index).columns \o reindex(y, index).columns)

merge_by_concat(t1, t2, merge_on, sorted) ==
    LET merged_gf   == merge_left(Table(t1.index,
                                        [k \in DOMAIN merge_on |-> ColumnOf(t1, merge_on[k])]),
                                  t2, merge_on)
        new_columns == SelectSeq(merged_gf.columns, LAMBDA c : c.name \notin Range(merge_on))
    IN  concat_axis1(t1, Table(merged_gf.index, new_columns), sorted)

(***************************************************************************)
(* size_of_fmt.  num is [neg, m, j], the float (+/-) m * 1024^j; dividing  *)
(* a float by 1024.0 is exact, so num /= 1024.0 lowers j by one.  The      *)
(* returned string is [neg, whole, tenth, unit, suffix]: the sign, the     *)
(* digits before and the digit after the decimal point, the two strings.   *)
(***************************************************************************)
units == <<"", "Ki", "Mi", "Gi", "Ti", "Pi", "Ei", "Zi">>

\* abs(num) <= 1024.0
abs_le_1024(n) ==
    \/ n.m = 0
    \/ n.j <= 0 /\ (n.j <= -2 \/ n.m <= 1024^(1 - n.j))

\* abs(num) < 1024.0
abs_lt_1024(n) ==
    \/ n.m = 0
    \/ n.j <= 0 /\ (n.j <= -2 \/ n.m < 1024^(1 - n.j))

\* "%3.1f" % num and "%.1f" % num: one decimal, correctly rounded, ties to even
\* (the string is never shorter than the 3 characters "%3.1f" pads to)
format_1f(n) ==
    IF n.j >= 0 THEN [neg |-> n.neg, whole |-> n.m * 1024^(n.j), tenth |-> 0]
    ELSE
        LET d    == 1024^(-n.j)
            q    == (n.m * 10) \div d
            rem  == (n.m * 10) % d
            up   == 2 * rem > d \/ (2 * rem = d /\ q % 2 = 1)
            t    == IF up THEN q + 1 ELSE q
        IN  [neg |-> n.neg, whole |-> t \div 10, tenth |-> t % 10]

\* "%3.1f%s%s" % (num, unit, suffix)
format(n, u, sfx) ==
    LET f == format_1f(n)
    IN  [neg |-> f.neg, whole |-> f.whole, tenth |-> f.tenth, unit |-> u, suffix |-> sfx]

(***************************************************************************)
(* The inputs of the three functions.                                      *)
(***************************************************************************)
Values(dtype) ==
    CASE dtype = int8 -> {I(-128), I(5), I(127)}
      [] dtype = int16 -> {I(-128), I(5), I(127), I(32767)}
      [] dtype = int32 -> {I(-32768), I(5), I(127), iinfo_max(32)}
      [] dtype = int64 -> {iinfo_min(64), I(5), <<0, 0, 32768, 0>>, iinfo_max(64)}
      [] dtype = float16 -> {F(1, 1, 0), finfo_max(16), NaN}
      [] dtype = float32 -> {F(1, 2049, 0), finfo_min(16), finfo_max(32)}
      [] dtype = float64 -> {F(1, 2049, 0), F(1, 65503, 0), F(1, 2^26 - 5, 102), Inf(1)}
      [] dtype = object -> {"x", "y"}

Dtypes == {int8, int16, int32, int64, float16, float32, float64, object}

\* the tables passed to reduce_dtypes: columns "a" and "b" of any dtype, n rows,
\* every value one its column's dtype can store
IsTable(t, n) ==
    \E da \in Dtypes, db \in Dtypes :
        \E va \in [1..n -> Values(da)], vb \in [1..n -> Values(db)] :
            t = Table(RangeIndex(n), <<Column("a", da, va), Column("b", db, vb)>>)

\* the row indexes of a primary table of n rows: n distinct labels among 0..n, so
\* the default 0..n-1, a shifted one and a permuted one are all there
Indexes(n) ==
    {ix \in [1..n -> 0..n] : \A i, j \in 1..n : ix[i] = ix[j] => i = j}

\* the primary tables: key column "id", data column "a", both int64
IsPrimaryTable(t, n) ==
    \E ix \in Indexes(n), k \in [1..n -> {I(1), I(2)}], a \in [1..n -> {I(10), I(11)}] :
        t = Table(ix, <<Column("id", int64, k), Column("a", int64, a)>>)

\* the secondary tables: key column "id", data column "b", default index
IsSecondaryTable(t, n) ==
    \E k \in [1..n -> {I(1), I(2)}], b \in [1..n -> {I(20), I(21)}] :
        t = Table(RangeIndex(n), <<Column("id", int64, k), Column("b", int64, b)>>)

merge_on == <<"id">>

\* the byte counts passed to size_of_fmt: (+/-) m * 1024^j, kept small enough for
\* the digits before the decimal point of the result to stay below 2^31
Mantissas == {0, 1, 1023, 1024, 1025, 1280, 1792, 1048575}

ByteCounts ==
    {n \in [neg : BOOLEAN, m : Mantissas, j : 0..MaxExp] :
        /\ n.m = 0 => (~n.neg /\ n.j = 0)
        /\ n.j > 8 => n.m < 1024}

NoTable == Table(<<>>, <<>>)
NoString == [neg |-> FALSE, whole |-> 0, tenth |-> 0, unit |-> "none", suffix |-> "none"]
NoNum == [neg |-> FALSE, m |-> 0, j |-> 0]

ReduceIdle == df = NoTable /\ df_prev = NoTable /\ calls = 0
MergeIdle == df1 = NoTable /\ df2 = NoTable /\ merged = NoTable
FmtIdle == num = NoNum /\ num0 = NoNum /\ suffix = "none" /\ unit = 0 /\ out = NoString

(***************************************************************************)
(* reduce_dtypes called, and called again on its own result.               *)
(***************************************************************************)
InitReduce ==
    /\ \E n \in 0..MaxRows : IsTable(df, n)
    /\ df_prev = df
    /\ calls = 0
    /\ MergeIdle /\ FmtIdle

\* df = reduce_dtypes(df).  The memory report (start_mem, end_mem, the print under
\* verbose) reads the table and changes nothing.
Reduce ==
    /\ calls < MaxCalls
    /\ df_prev' = df
    /\ df' = reduce_dtypes(df)
    /\ calls' = calls + 1
    /\ UNCHANGED <<df1, df2, merged, num, num0, suffix, unit, out>>

NextReduce == Reduce

SpecReduce == InitReduce /\ [][NextReduce]_vars

(***************************************************************************)
(* merge_by_concat called once.                                            *)
(***************************************************************************)
InitMerge ==
    /\ \E n \in 0..MaxRows : IsPrimaryTable(df1, n)
    /\ \E n \in 0..MaxRows : IsSecondaryTable(df2, n)
    /\ merged = NoTable
    /\ ReduceIdle /\ FmtIdle

\* merged = merge_by_concat(df1, df2, merge_on)
Merge ==
    /\ merged = NoTable
    /\ \E sorted \in BOOLEAN : merged' = merge_by_concat(df1, df2, merge_on, sorted)
    /\ UNCHANGED <<df, df_prev, calls, df1, df2, num, num0, suffix, unit, out>>

NextMerge == Merge

SpecMerge == InitMerge /\ [][NextMerge]_vars

(***************************************************************************)
(* size_of_fmt, one step of its loop at a time.                            *)
(***************************************************************************)
InitFmt ==
    /\ num0 \in ByteCounts
    /\ num = num0
    /\ suffix \in {"B", "b"}
    /\ unit = 1
    /\ out = NoString
    /\ ReduceIdle /\ MergeIdle

\* if abs(num) < 1024.0: return "%3.1f%s%s" % (num, unit, suffix)
FmtReturn ==
    /\ out = NoString /\ unit \in DOMAIN units
    /\ abs_lt_1024(num)
    /\ out' = format(num, units[unit], suffix)
    /\ UNCHANGED <<df, df_prev, calls, df1, df2, merged, num, num0, suffix, unit>>

\* num /= 1024.0, and on to the next unit
FmtDivide ==
    /\ out = NoString /\ unit \in DOMAIN units
    /\ ~abs_lt_1024(num)
    /\ num' = [num EXCEPT !.j = @ - 1]
    /\ unit' = unit + 1
    /\ UNCHANGED <<df, df_prev, calls, df1, df2, merged, num0, suffix, out>>

\* return "%.1f%s%s" % (num, 'Yi', suffix)
FmtFallback ==
    /\ out = NoString /\ unit = Len(units) + 1
    /\ out' = format(num, "Yi", suffix)
    /\ UNCHANGED <<df, df_prev, calls, df1, df2, merged, num, num0, suffix, unit>>

NextFmt == FmtReturn \/ FmtDivide \/ FmtFallback

SpecFmt == InitFmt /\ [][NextFmt]_vars

(***************************************************************************)
(* Properties of reduce_dtypes.  Before(i) is column i as it was passed to *)
(* the latest call, After(i) the same column when the call returned.       *)
(***************************************************************************)
Called == calls >= 1
Before(i) == df_prev.columns[i]
After(i) == df.columns[i]
ColumnIds == DOMAIN df_prev.columns
IntWidths == {8, 16, 32, 64}

IsIntColumn(c) == c.dtype.kind = "int"
IsFloatColumn(c) == c.dtype.kind = "float"

\* every value of vals lies strictly between int<bits>'s min and max
StrictlyInside(vals, bits) ==
    \A v \in Range(vals) : IntLess(iinfo_min(bits), v) /\ IntLess(v, iinfo_max(bits))

\* the least or the greatest value of vals is a bound of int<bits>
Touches(vals, bits) ==
    \/ iinfo_min(bits) \in Range(vals) /\ \A v \in Range(vals) : ~IntLess(v, iinfo_min(bits))
    \/ iinfo_max(bits) \in Range(vals) /\ \A v \in Range(vals) : ~IntLess(iinfo_max(bits), v)

\* the resulting type strictly contains the column, and no narrower candidate does
NarrowestStrictFit(before, after) ==
    /\ IsIntColumn(after)
    /\ StrictlyInside(after.vals, after.dtype.bits)
    /\ \A b \in IntWidths : b < after.dtype.bits => ~StrictlyInside(before.vals, b)

\* C1 as stated: every non-empty integer column, declared int8, int16, int32 or
\* int64, ends with the narrowest of int8, int16, int32, int64 that strictly
\* contains its minimum and maximum.
C1_AsStated ==
    Called =>
        \A i \in ColumnIds :
            (IsIntColumn(Before(i)) /\ Before(i).vals # <<>>)
                => NarrowestStrictFit(Before(i), After(i))

\* C1 as amended: a non-empty column declared int16, int32 or int64 whose values
\* all lie strictly inside int64's range ends with the narrowest of int8, int16,
\* int32, int64 that strictly contains its minimum and maximum; a column declared
\* int8, and a column holding int64's min or max, is left as it was.
C1_NarrowestStrictFit ==
    Called =>
        \A i \in ColumnIds :
            (IsIntColumn(Before(i)) /\ Before(i).vals # <<>>) =>
                IF Before(i).dtype \in {int16, int32, int64} /\ StrictlyInside(Before(i).vals, 64)
                THEN NarrowestStrictFit(Before(i), After(i))
                ELSE After(i) = Before(i)

\* an int32 column of two different values has been narrowed to int16
C1_Witness ==
    /\ Called
    /\ \E i \in ColumnIds :
        /\ Before(i).dtype = int32 /\ After(i).dtype = int16
        /\ Len(Before(i).vals) = 2 /\ Before(i).vals[1] # Before(i).vals[2]

\* C2 as stated: reduce_dtypes applied to its own result returns that result, types
\* and values.
C2_Idempotent == calls >= 2 => df = df_prev

\* C3 as stated: every originally numeric column keeps each row's value at its
\* position, every value being inside the resulting type's range.
C3_ValuesPreserved ==
    Called =>
        \A i \in ColumnIds :
            (IsIntColumn(Before(i)) \/ IsFloatColumn(Before(i))) =>
                /\ After(i).vals = Before(i).vals
                /\ astype(After(i), After(i).dtype) = After(i)

\* C4: a column whose declared type is none of int16, int32, int64, float16,
\* float32, float64 comes back with the same type and the same values in the same
\* order, whatever the other column holds.
C4_OtherColumnsUnchanged ==
    Called =>
        \A i \in ColumnIds :
            Before(i).dtype \notin {Dtype("int", 16), Dtype("int", 32), Dtype("int", 64),
                                    Dtype("float", 16), Dtype("float", 32), Dtype("float", 64)}
                => After(i) = Before(i)

\* an int8 column holding 127 is next to a column whose type the call changed
C4_Witness ==
    /\ Called
    /\ Before(1).dtype = int8 /\ I(127) \in Range(Before(1).vals)
    /\ After(2).dtype # Before(2).dtype

\* C5 as stated: an integer column whose minimum or maximum equals a bound of a
\* candidate type never ends with that candidate and ends with the next wider one.
C5_AsStated ==
    Called =>
        \A i \in ColumnIds :
            (IsIntColumn(Before(i)) /\ Before(i).vals # <<>>) =>
                \A b \in IntWidths :
                    Touches(Before(i).vals, b) =>
                        /\ After(i).dtype # Dtype("int", b)
                        /\ After(i).dtype = Dtype("int", 2 * b)

\* C5 as amended: for a non-empty column declared int16, int32 or int64, a candidate
\* narrower than int64 whose min equals the column's minimum or whose max equals
\* its maximum is never the resulting type: the column ends with a wider candidate,
\* the next wider one whenever that one strictly contains the column (int16 for a
\* maximum of 127); a column touching a bound of int64 stays int64, and a column
\* declared int8 stays int8 even when it holds -128 or 127.
C5_StrictBounds ==
    Called =>
        \A i \in ColumnIds :
            (IsIntColumn(Before(i)) /\ Before(i).vals # <<>>) =>
                IF Before(i).dtype = int8 THEN After(i) = Before(i)
                ELSE \A b \in IntWidths :
                        Touches(Before(i).vals, b) =>
                            IF b = 64 THEN After(i) = Before(i) /\ After(i).dtype = int64
                            ELSE /\ IsIntColumn(After(i))
                                 /\ After(i).dtype.bits > b
                                 /\ StrictlyInside(Before(i).vals, 2 * b)
                                        => After(i).dtype.bits = 2 * b

\* an int32 column whose maximum is 127 has ended as int16
C5_Witness ==
    /\ Called
    /\ \E i \in ColumnIds :
        /\ Before(i).dtype = int32 /\ After(i).dtype = int16
        /\ I(127) \in Range(Before(i).vals)
        /\ \A v \in Range(Before(i).vals) : ~IntLess(I(127), v)

\* C9 as stated: a numeric column, integer or floating-point, that has no rows keeps
\* its declared type.
C9_EmptyColumnNoOp ==
    Called =>
        \A i \in ColumnIds :
            ((IsIntColumn(Before(i)) \/ IsFloatColumn(Before(i))) /\ Before(i).vals = <<>>)
                => After(i).dtype = Before(i).dtype

\* C10 as stated: no numeric column, integer or floating-point, ends with a type
\* wider than its declared type.
C10_NeverWidens ==
    Called =>
        \A i \in ColumnIds :
            (IsIntColumn(Before(i)) \/ IsFloatColumn(Before(i)))
                => After(i).dtype.bits <= Before(i).dtype.bits

(***************************************************************************)
(* Properties of merge_by_concat.                                          *)
(***************************************************************************)
Merged == merged # NoTable

\* C6 as stated: the result has as many rows as the primary table.
C6_RowCountPreserved == Merged => NumRows(merged) = NumRows(df1)

\* the value of column c of table t in the row labelled label
Cell(t, c, label) == t.columns[c].vals[Position(t.index, label)]

\* that value is the missing-value placeholder
IsMissing(t, c, label) ==
    t.columns[c].dtype.kind # "int" /\ Cell(t, c, label).k = "nan"

\* C7 as stated: the primary table's columns come first, in order, each with its
\* declared type and its value in every primary row; the columns after them are the
\* secondary table's non-key columns; a primary row whose key matches no secondary
\* row holds the missing value in each of them.
C7_PrimaryColumnsKept ==
    Merged =>
        LET n1    == Len(df1.columns)
            added == SelectSeq(ColumnNames(df2), LAMBDA c : c \notin Range(merge_on))
        IN  /\ ColumnNames(merged) = ColumnNames(df1) \o added
            /\ \A c \in 1..n1 :
                /\ merged.columns[c].dtype = df1.columns[c].dtype
                /\ \A l \in Range(df1.index) :
                    /\ l \in Range(merged.index)
                    /\ Cell(merged, c, l) = Cell(df1, c, l)
            /\ \A r \in 1..NumRows(df1) :
                (\A j \in 1..NumRows(df2) : KeyOf(df2, merge_on, j) # KeyOf(df1, merge_on, r))
                    => \A c \in (n1 + 1)..Len(merged.columns) :
                          IsMissing(merged, c, df1.index[r])

(***************************************************************************)
(* Properties of size_of_fmt.                                              *)
(***************************************************************************)
Returned == out # NoString

all_units == units \o <<"Yi">>

\* m * 1024^e < 1024
Below1024(m, e) ==
    IF e >= 1 THEN m = 0 ELSE e <= -2 \/ m < 1024^(1 - e)

\* whole.tenth is m * 1024^e to one decimal place: the nearest tenth, the even one
\* of two equally near
IsOneDecimalOf(whole, tenth, m, e) ==
    IF e >= 0 THEN whole = m * 1024^e /\ tenth = 0
    ELSE
        LET d    == 1024^(-e)
            t    == whole * 10 + tenth
            diff == IF 10 * m >= t * d THEN 10 * m - t * d ELSE t * d - 10 * m
        IN  /\ tenth \in 0..9 /\ whole >= 0
            /\ 2 * diff < d \/ (2 * diff = d /\ t % 2 = 0)

Text(neg, whole, tenth, u, sfx) ==
    [neg |-> neg, whole |-> whole, tenth |-> tenth, unit |-> u, suffix |-> sfx]

\* C8: the result is num / 1024^k to one decimal place, then the k-th prefix and the
\* suffix; for a prefix of the list the scaled magnitude is below 1024, and Yi is
\* used only when no prefix of the list brings it below 1024; 0 gives "0.0B", 1023
\* gives "1023.0B" and 1024 gives "1.0KiB".
C8_Format ==
    Returned =>
        /\ \E k \in 0..8 :
            /\ out.unit = all_units[k + 1]
            /\ out.suffix = suffix
            /\ out.neg = num0.neg
            /\ IsOneDecimalOf(out.whole, out.tenth, num0.m, num0.j - k)
            /\ k <= 7 => Below1024(num0.m, num0.j - k)
            /\ k = 8 => \A k2 \in 0..7 : ~Below1024(num0.m, num0.j - k2)
        /\ (num0.m = 0 /\ suffix = "B") => out = Text(FALSE, 0, 0, "", "B")
        /\ (num0 = [neg |-> FALSE, m |-> 1023, j |-> 0] /\ suffix = "B")
                => out = Text(FALSE, 1023, 0, "", "B")
        /\ (num0 \in {[neg |-> FALSE, m |-> 1024, j |-> 0], [neg |-> FALSE, m |-> 1, j |-> 1]}
                /\ suffix = "B")
                => out = Text(FALSE, 1, 0, "Ki", "B")

\* 1280 * 1024^7 has been returned as "1.2YiB": past the whole list, rounded to even
C8_Witness ==
    /\ Returned
    /\ num0 = [neg |-> FALSE, m |-> 1280, j |-> 7]
    /\ out = Text(FALSE, 1, 2, "Yi", "B")

====
